---- MODULE Spec2Model ----
(***************************************************************************)
(* Datatype-specific hash support functions of the hash access method      *)
(* (src/backend/access/hash/hashfunc.c).                                   *)
(*                                                                         *)
(* Every C value is kept as the little-endian sequence of its bytes, so    *)
(* that casts, sign extension, truncation and the 64-bit fold are byte     *)
(* operations and no arithmetic leaves the 32-bit range of the checker.    *)
(*                                                                         *)
(* The byte-hash primitives hash_any / hash_uint32 and their seeded        *)
(* variants live outside this file.  They are kept uninterpreted: the      *)
(* Datum they return records which primitive was called, the exact bytes   *)
(* it was given and the seed.  Two such Datums are equal exactly when the  *)
(* primitive got the same input, so an equality of hash codes proved here  *)
(* holds for every deterministic primitive, and never by a collision.      *)
(***************************************************************************)
EXTENDS Integers, Sequences, FiniteSets, TLC

VARIABLES pc, fn, arg, seed, key, result, heap, argLive

vars == <<pc, fn, arg, seed, key, result, heap, argLive>>

(***************************************************************************)
(* Bounds of the model.                                                    *)
(***************************************************************************)
NumBackends == 2
Window == 1
MaxSeed == 1
MaxLen == 2
MaxDim == 3
MaxOid == 3
MaxNameLen == 2

(***************************************************************************)
(* Bytes, words and two's complement.                                      *)
(***************************************************************************)
RECURSIVE ToBytes(_, _)
ToBytes(n, w) == IF w = 0 THEN <<>> ELSE <<n % 256>> \o ToBytes(n \div 256, w - 1)

IsNegative(b) == b[Len(b)] >= 128

RECURSIVE Magnitude(_)
Magnitude(b) == IF Len(b) = 0 THEN 0 ELSE b[1] + 256 * Magnitude(Tail(b))

\* the number a two's-complement byte sequence of at most 4 bytes stands for
Value(b) ==
    LET top == b[Len(b)]
        low == SubSeq(b, 1, Len(b) - 1)
        scale == CASE Len(b) = 1 -> 1 [] Len(b) = 2 -> 256
                   [] Len(b) = 3 -> 65536 [] Len(b) = 4 -> 16777216
    IN  Magnitude(low) + scale * (IF top >= 128 THEN top - 256 ELSE top)

RECURSIVE XorBits(_, _, _)
XorBits(a, b, n) ==
    IF n = 0 THEN 0
    ELSE (((a % 2) + (b % 2)) % 2) + 2 * XorBits(a \div 2, b \div 2, n - 1)

Xor(x, y) == [i \in 1..Len(x) |-> XorBits(x[i], y[i], 8)]

Complement(x) == [i \in 1..Len(x) |-> 255 - x[i]]

\* a widening cast of a signed integer: the sign bit fills the new bytes
SignExtend(b, w) ==
    b \o [i \in 1..(w - Len(b)) |-> IF IsNegative(b) THEN 255 ELSE 0]

\* a narrowing cast keeps the low bytes
Truncate(b, w) == SubSeq(b, 1, w)

\* the first n bytes at a pointer; reading past the object yields unknown (-1) bytes
Take(mem, n) == [i \in 1..n |-> IF i <= Len(mem) THEN mem[i] ELSE 0 - 1]

NoSeed == <<>>

(***************************************************************************)
(* The external primitives and the Datum constructors.                     *)
(***************************************************************************)
hash_uint32(k) == [prim |-> "hash_uint32", key |-> k, seed |-> NoSeed]

hash_uint32_extended(k, s) == [prim |-> "hash_uint32_extended", key |-> k, seed |-> s]

hash_any(k, keylen) == [prim |-> "hash_any", key |-> Take(k, keylen), seed |-> NoSeed]

hash_any_extended(k, keylen, s) ==
    [prim |-> "hash_any_extended", key |-> Take(k, keylen), seed |-> s]

UInt32GetDatum(x) == [prim |-> "UInt32GetDatum", key |-> x, seed |-> NoSeed]

UInt64GetDatum(x) == [prim |-> "UInt64GetDatum", key |-> x, seed |-> NoSeed]

NoDatum == [prim |-> "none", key |-> <<>>, seed |-> NoSeed]

(***************************************************************************)
(* Integer, "char", oid and enum hashers.                                  *)
(***************************************************************************)
\* (int32) PG_GETARG_CHAR(0): char is a signed type on the modelled build
hashchar(a) == hash_uint32(SignExtend(a, 4))

hashcharextended(a, s) == hash_uint32_extended(SignExtend(a, 4), s)

hashint2(a) == hash_uint32(SignExtend(a, 4))

hashint2extended(a, s) == hash_uint32_extended(SignExtend(a, 4), s)

hashint4(a) == hash_uint32(a)

hashint4extended(a, s) == hash_uint32_extended(a, s)

\* the fold with the high half never complemented
fold_nocomplement(val) ==
    LET lohalf == Truncate(val, 4)
        hihalf == SubSeq(val, 5, 8)
    IN  Xor(lohalf, hihalf)

\* lohalf ^= (val >= 0) ? hihalf : ~hihalf
fold(val) ==
    LET lohalf == Truncate(val, 4)
        hihalf == SubSeq(val, 5, 8)
    IN  Xor(lohalf, IF ~IsNegative(val) THEN hihalf ELSE Complement(hihalf))

hashint8(val) == hash_uint32(fold(val))

\* the seeded hash with a fixed seed in place of the caller's
hashint8extended_noseed(val, s) == hash_uint32_extended(fold(val), ToBytes(0, 8))

hashint8extended(val, s) == hash_uint32_extended(fold(val), s)

hashoid(a) == hash_uint32(a)

hashoidextended(a, s) == hash_uint32_extended(a, s)

hashenum(a) == hash_uint32(a)

hashenumextended(a, s) == hash_uint32_extended(a, s)

(***************************************************************************)
(* Inputs.                                                                 *)
(***************************************************************************)
Near(n) == (n - Window)..(n + Window)

Int16Numbers == (0 - 32768)..(Window - 32768) \cup Near(0 - 256) \cup Near(0)
                    \cup Near(42) \cup Near(256) \cup (32767 - Window)..32767

Int32Numbers == Int16Numbers \cup Near(0 - 32768) \cup Near(32768) \cup Near(65536)
                    \cup Near(0 - 65536)
                    \cup {(i - 2147483647) - 1 : i \in 0..Window}
                    \cup {2147483647 - i : i \in 0..Window}

Int16Inputs == {ToBytes(n, 2) : n \in Int16Numbers}

Int32Inputs == {ToBytes(n, 4) : n \in Int32Numbers}

\* 64-bit values: the 32-bit range, and values whose high half is significant
HighHalves == {ToBytes(n, 4) : n \in {1, 0 - 2, 2147483647, 0 - 2147483647 - 1}}

LowHalves == {ToBytes(n, 4) : n \in Near(0) \cup {2147483647, 0 - 2147483647 - 1}}

Int64Inputs == {ToBytes(n, 8) : n \in Int32Numbers}
                   \cup {lo \o hi : lo \in LowHalves, hi \in HighHalves}

CharInputs == {ToBytes(n, 1) : n \in Near(0) \cup Near(97) \cup Near(128)}

OidNumbers == 1..MaxOid

OidInputs == {ToBytes(n, 4) : n \in OidNumbers \cup {0, 0 - 1}}

SeedInputs == {ToBytes(n, 8) : n \in (0 - 1)..MaxSeed}

(***************************************************************************)
(* IEEE floats.  A float4 is its sign, 8-bit exponent and 23-bit fraction  *)
(* field; a float8 is its sign, 11-bit exponent and 52-bit fraction field, *)
(* the fraction split in two 26-bit halves fhi and flo.                    *)
(***************************************************************************)
Pow2(n) == CASE n = 0 -> 1 [] n = 1 -> 2 [] n = 2 -> 4 [] n = 3 -> 8 [] n = 4 -> 16
             [] n = 5 -> 32 [] n = 6 -> 64 [] n = 7 -> 128 [] n = 8 -> 256
             [] n = 9 -> 512 [] n = 10 -> 1024 [] n = 11 -> 2048 [] n = 12 -> 4096
             [] n = 13 -> 8192 [] n = 14 -> 16384 [] n = 15 -> 32768
             [] n = 16 -> 65536 [] n = 17 -> 131072 [] n = 18 -> 262144
             [] n = 19 -> 524288 [] n = 20 -> 1048576 [] n = 21 -> 2097152
             [] n = 22 -> 4194304 [] n = 23 -> 8388608 [] n = 24 -> 16777216
             [] n = 25 -> 33554432 [] n = 26 -> 67108864

\* position of the highest set bit of n > 0
TopBit(n) == CHOOSE k \in 0..26 : Pow2(k) <= n /\ (k = 26 \/ n < Pow2(k + 1))

Float4IsNaN(f) == f.exp = 255 /\ f.frac # 0

Float8IsNaN(d) == d.exp = 2047 /\ (d.fhi # 0 \/ d.flo # 0)

\* key == (float4) 0 : true of both zeros, false of every NaN
Float4IsZero(f) == f.exp = 0 /\ f.frac = 0

\* key == (float8) 0
Float8IsZero(d) == d.exp = 0 /\ d.fhi = 0 /\ d.flo = 0

\* key8 = key : the conversion of a float4 to float8, which is always exact;
\* a NaN keeps its sign and payload and comes out quiet
float4_to_float8(f) ==
    CASE f.exp = 255 ->
            [sign |-> f.sign, exp |-> 2047,
             fhi |-> 8 * (IF f.frac # 0 /\ f.frac < Pow2(22)
                          THEN f.frac + Pow2(22) ELSE f.frac),
             flo |-> 0]
      [] f.exp = 0 /\ f.frac = 0 ->
            [sign |-> f.sign, exp |-> 0, fhi |-> 0, flo |-> 0]
      [] f.exp = 0 /\ f.frac # 0 ->
            LET p == TopBit(f.frac)
            IN  [sign |-> f.sign, exp |-> 874 + p,
                 fhi |-> 8 * ((f.frac - Pow2(p)) * Pow2(23 - p)), flo |-> 0]
      [] OTHER ->
            [sign |-> f.sign, exp |-> f.exp + 896, fhi |-> 8 * f.frac, flo |-> 0]

\* the 4 bytes of a float4 object
Float4Bytes(f) ==
    << f.frac % 256, (f.frac \div 256) % 256,
       (f.frac \div 65536) + 128 * (f.exp % 2), (f.exp \div 2) + 128 * f.sign >>

\* the 8 bytes of a float8 object
Float8Bytes(d) ==
    << d.flo % 256, (d.flo \div 256) % 256, (d.flo \div 65536) % 256,
       (d.flo \div 16777216) + 4 * (d.fhi % 64),
       (d.fhi \div 64) % 256, (d.fhi \div 16384) % 256,
       (d.fhi \div 4194304) + 16 * (d.exp % 16), (d.exp \div 16) + 128 * d.sign >>

\* hashing the 4 bytes of the float4 itself
hashfloat4_narrow(f) ==
    IF Float4IsZero(f) THEN UInt32GetDatum(ToBytes(0, 4))
    ELSE hash_any(Float4Bytes(f), 4)

hashfloat4(f) ==
    IF Float4IsZero(f) THEN UInt32GetDatum(ToBytes(0, 4))
    ELSE LET key8 == float4_to_float8(f) IN hash_any(Float8Bytes(key8), 8)

hashfloat4extended(f, s) ==
    IF Float4IsZero(f) THEN UInt64GetDatum(s)
    ELSE LET key8 == float4_to_float8(f) IN hash_any_extended(Float8Bytes(key8), 8, s)

\* hashing the bytes of every value, the zeros included
hashfloat8_nozero(d) == hash_any(Float8Bytes(d), 8)

hashfloat8(d) ==
    IF Float8IsZero(d) THEN UInt32GetDatum(ToBytes(0, 4))
    ELSE hash_any(Float8Bytes(d), 8)

hashfloat8extended(d, s) ==
    IF Float8IsZero(d) THEN UInt64GetDatum(s)
    ELSE hash_any_extended(Float8Bytes(d), 8, s)

\* the equality operators of the float types: C equality, except that all
\* NaNs are equal to each other
float4_eq(a, b) ==
    IF Float4IsNaN(a) THEN Float4IsNaN(b)
    ELSE ~Float4IsNaN(b) /\ ((Float4IsZero(a) /\ Float4IsZero(b)) \/ a = b)

float8_eq(a, b) ==
    IF Float8IsNaN(a) THEN Float8IsNaN(b)
    ELSE ~Float8IsNaN(b) /\ ((Float8IsZero(a) /\ Float8IsZero(b)) \/ a = b)

Float4Fractions == 0..Window \cup Pow2(22)..(Pow2(22) + Window)
                       \cup (Pow2(23) - 1 - Window)..(Pow2(23) - 1)

Float4Inputs == [sign : {0, 1}, exp : {0, 1, 127, 254, 255}, frac : Float4Fractions]

Float8Inputs == {float4_to_float8(f) : f \in Float4Inputs}
                    \cup [sign : {0, 1}, exp : {0, 1, 1023, 2046, 2047},
                          fhi : {0, Pow2(25), Pow2(26) - 1},
                          flo : 0..Window \cup {Pow2(26) - 1}]

(***************************************************************************)
(* Object-identifier vectors.  values is the memory at key->values: the    *)
(* elements, followed by whatever lies behind the object.                  *)
(***************************************************************************)
sizeof_Oid == 4

RECURSIVE Flatten(_)
Flatten(elems) ==
    IF Len(elems) = 0 THEN <<>> ELSE ToBytes(elems[1], sizeof_Oid) \o Flatten(Tail(elems))

\* a span of dim1 bytes instead of dim1 elements
hashoidvector_count(v) == hash_any(v.values, v.dim1)

hashoidvector(v) == hash_any(v.values, v.dim1 * sizeof_Oid)

hashoidvectorextended(v, s) == hash_any_extended(v.values, v.dim1 * sizeof_Oid, s)

RECURSIVE SeqsUpTo(_, _)
SeqsUpTo(S, n) ==
    IF n = 0 THEN {<<>>}
    ELSE LET shorter == SeqsUpTo(S, n - 1)
         IN  shorter \cup {Append(q, x) : q \in shorter, x \in S}

\* what buildoidvector() makes of a list of oids
OidVector(elems) ==
    [vl_len_ |-> 24 + sizeof_Oid * Len(elems), ndim |-> 1, dataoffset |-> 0,
     elemtype |-> 26, dim1 |-> Len(elems), lbound1 |-> 0,
     values |-> Flatten(elems), logical |-> elems]

OidVectorInputs == {OidVector(e) : e \in SeqsUpTo(OidNumbers, MaxDim)}

(***************************************************************************)
(* Names: a buffer of NAMEDATALEN bytes holding a NUL-terminated string.   *)
(***************************************************************************)
NAMEDATALEN == 64

\* strlen(key): the number of bytes before the first NUL
strlen(buf) == (CHOOSE i \in 1..Len(buf) : buf[i] = 0 /\ \A j \in 1..(i - 1) : buf[j] # 0) - 1

\* hashing the whole buffer
hashname_whole(n) == hash_any(n.data, NAMEDATALEN)

hashname(n) == hash_any(n.data, strlen(n.data))

hashnameextended(n, s) == hash_any_extended(n.data, strlen(n.data), s)

\* a name buffer: the string, its terminator, and padding bytes behind it
NameData(str, pad) ==
    [data |-> str \o <<0>> \o [i \in 1..(NAMEDATALEN - 1 - Len(str)) |-> pad[(i % 2) + 1]],
     logical |-> str]

NamePaddings == {<<0, 0>>, <<120, 120>>, <<0, 121>>}

NameStrings == SeqsUpTo({97, 98}, MaxNameLen) \cup {[i \in 1..(NAMEDATALEN - 1) |-> 97]}

NameInputs == {NameData(str, pad) : str \in NameStrings, pad \in NamePaddings}

(***************************************************************************)
(* Variable-length values.  image is the bytes of the datum the caller     *)
(* passes; toast is what the TOAST relation stores for an out-of-line      *)
(* pointer; logical is the content the value stands for.                   *)
(***************************************************************************)
VARHDRSZ == 4

VARHDRSZ_SHORT == 1

VARHDRSZ_EXTERNAL == 2

VARTAG_ONDISK == 18

VARATT_IS_1B(img) == img[1] % 2 = 1

VARATT_IS_1B_E(img) == img[1] = 1

VARATT_IS_4B_C(img) == img[1] % 4 = 2

VARATT_IS_COMPRESSED(img) == VARATT_IS_4B_C(img)

VARATT_IS_EXTERNAL(img) == VARATT_IS_1B_E(img)

VARSIZE_4B(img) == Magnitude(Take(img, 4)) \div 4

VARSIZE_1B(img) == (img[1] \div 2) % 128

\* sizeof(varatt_external) for an on-disk pointer
VARSIZE_EXTERNAL(img) == VARHDRSZ_EXTERNAL + 16

VARDATA_4B(img) == SubSeq(img, VARHDRSZ + 1, Len(img))

VARDATA_1B(img) == SubSeq(img, VARHDRSZ_SHORT + 1, Len(img))

VARSIZE_ANY_EXHDR(img) ==
    IF VARATT_IS_1B_E(img) THEN VARSIZE_EXTERNAL(img) - VARHDRSZ_EXTERNAL
    ELSE IF VARATT_IS_1B(img) THEN VARSIZE_1B(img) - VARHDRSZ_SHORT
    ELSE VARSIZE_4B(img) - VARHDRSZ

VARDATA_ANY(img) == IF VARATT_IS_1B(img) THEN VARDATA_1B(img) ELSE VARDATA_4B(img)

\* the compression codec, as run-length pairs <<count, byte>>
RECURSIVE pglz_compress(_)
pglz_compress(raw) ==
    IF Len(raw) = 0 THEN <<>>
    ELSE LET run == CHOOSE n \in 1..Len(raw) :
                        /\ \A i \in 1..n : raw[i] = raw[1]
                        /\ (n = Len(raw) \/ raw[n + 1] # raw[1])
         IN  <<run, raw[1]>> \o pglz_compress(SubSeq(raw, run + 1, Len(raw)))

RECURSIVE pglz_decompress(_)
pglz_decompress(z) ==
    IF Len(z) = 0 THEN <<>>
    ELSE [i \in 1..z[1] |-> z[2]] \o pglz_decompress(SubSeq(z, 3, Len(z)))

ShortImage(raw) == <<2 * (Len(raw) + VARHDRSZ_SHORT) + 1>> \o raw

LongImage(raw) == ToBytes(4 * (Len(raw) + VARHDRSZ), 4) \o raw

CompressedImage(raw) ==
    LET z == pglz_compress(raw)
    IN  ToBytes(4 * (Len(z) + VARHDRSZ + 4) + 2, 4) \o ToBytes(Len(raw), 4) \o z

\* varatt_external: va_rawsize, va_extsize, va_valueid, va_toastrelid
ExternalImage(stored, raw) ==
    <<1, VARTAG_ONDISK>> \o ToBytes(Len(raw) + VARHDRSZ, 4)
        \o ToBytes(Len(stored) - VARHDRSZ, 4) \o ToBytes(16384, 4) \o ToBytes(2619, 4)

Inline(img, raw) == [image |-> img, toast |-> <<>>, logical |-> raw]

OutOfLine(stored, raw) ==
    [image |-> ExternalImage(stored, raw), toast |-> stored, logical |-> raw]

\* the decompressed copy of a compressed inline image, with a 4-byte header
toast_decompress_datum(img) ==
    LET raw == pglz_decompress(SubSeq(img, VARHDRSZ + 4 + 1, Len(img)))
    IN  ToBytes(4 * (Magnitude(SubSeq(img, 5, 8)) + VARHDRSZ), 4) \o raw

\* the fresh copy heap_tuple_untoast_attr builds of an external or compressed value
heap_tuple_untoast_attr(d) ==
    LET fetched == IF VARATT_IS_EXTERNAL(d.image) THEN d.toast ELSE d.image
    IN  IF VARATT_IS_COMPRESSED(fetched) THEN toast_decompress_datum(fetched) ELSE fetched

\* pg_detoast_datum_packed makes a copy of exactly these values
NeedsCopy(d) == VARATT_IS_COMPRESSED(d.image) \/ VARATT_IS_EXTERNAL(d.image)

ContentBytes == {0, 97, 255}

VarlenaInputs ==
    UNION {{Inline(ShortImage(raw), raw), Inline(LongImage(raw), raw),
            Inline(CompressedImage(raw), raw),
            OutOfLine(LongImage(raw), raw), OutOfLine(CompressedImage(raw), raw)}
           : raw \in SeqsUpTo(ContentBytes, MaxLen)}

(***************************************************************************)
(* The functions of the file, by name.                                     *)
(***************************************************************************)
IntFns == {"hashchar", "hashcharextended", "hashint2", "hashint2extended",
           "hashint4", "hashint4extended", "hashint8", "hashint8extended",
           "hashoid", "hashoidextended", "hashenum", "hashenumextended"}

FloatFns == {"hashfloat4", "hashfloat4extended", "hashfloat8", "hashfloat8extended"}

VectorFns == {"hashoidvector", "hashoidvectorextended", "hashname", "hashnameextended"}

VarlenaFns == {"hashtext", "hashtextextended", "hashvarlena", "hashvarlenaextended"}

ExtendedFns == {"hashcharextended", "hashint2extended", "hashint4extended",
                "hashint8extended", "hashoidextended", "hashenumextended",
                "hashfloat4extended", "hashfloat8extended", "hashoidvectorextended",
                "hashnameextended", "hashtextextended", "hashvarlenaextended"}

Args(f) ==
    CASE f \in {"hashchar", "hashcharextended"} -> CharInputs
      [] f \in {"hashint2", "hashint2extended"} -> Int16Inputs
      [] f \in {"hashint4", "hashint4extended"} -> Int32Inputs
      [] f \in {"hashint8", "hashint8extended"} -> Int64Inputs
      [] f \in {"hashoid", "hashoidextended", "hashenum", "hashenumextended"} -> OidInputs
      [] f \in {"hashfloat4", "hashfloat4extended"} -> Float4Inputs
      [] f \in {"hashfloat8", "hashfloat8extended"} -> Float8Inputs
      [] f \in {"hashoidvector", "hashoidvectorextended"} -> OidVectorInputs
      [] f \in {"hashname", "hashnameextended"} -> NameInputs
      [] f \in VarlenaFns -> VarlenaInputs

Seeds(f) == IF f \in ExtendedFns THEN SeedInputs ELSE {NoSeed}

\* the functions that neither allocate nor free: one expression each
Eval(f, a, s) ==
    CASE f = "hashchar" -> hashchar(a)
      [] f = "hashcharextended" -> hashcharextended(a, s)
      [] f = "hashint2" -> hashint2(a)
      [] f = "hashint2extended" -> hashint2extended(a, s)
      [] f = "hashint4" -> hashint4(a)
      [] f = "hashint4extended" -> hashint4extended(a, s)
      [] f = "hashint8" -> hashint8(a)
      [] f = "hashint8extended" -> hashint8extended(a, s)
      [] f = "hashoid" -> hashoid(a)
      [] f = "hashoidextended" -> hashoidextended(a, s)
      [] f = "hashenum" -> hashenum(a)
      [] f = "hashenumextended" -> hashenumextended(a, s)
      [] f = "hashfloat4" -> hashfloat4(a)
      [] f = "hashfloat4extended" -> hashfloat4extended(a, s)
      [] f = "hashfloat8" -> hashfloat8(a)
      [] f = "hashfloat8extended" -> hashfloat8extended(a, s)
      [] f = "hashoidvector" -> hashoidvector(a)
      [] f = "hashoidvectorextended" -> hashoidvectorextended(a, s)
      [] f = "hashname" -> hashname(a)
      [] f = "hashnameextended" -> hashnameextended(a, s)

(***************************************************************************)
(* Backends.  Each backend calls one function at a time; the text and      *)
(* varlena hashers run in steps, because they allocate and free.           *)
(***************************************************************************)
Backends == 1..NumBackends

\* PG_GETARG_POINTER(0): the pointer the caller passed
ArgPtr == 0

NullPtr == 0 - 1

Init ==
    /\ pc = [p \in Backends |-> "idle"]
    /\ fn = [p \in Backends |-> "none"]
    /\ arg = [p \in Backends |-> <<>>]
    /\ seed = [p \in Backends |-> NoSeed]
    /\ key = [p \in Backends |-> NullPtr]
    /\ result = [p \in Backends |-> NoDatum]
    /\ heap = [p \in Backends |-> <<>>]
    /\ argLive = [p \in Backends |-> TRUE]

\* one key for all calls, as a static variable would be
KeySlotShared(p) == 1

\* "text *key" is an automatic variable: every call has its own
KeySlot(p) == p

\* the varlena a pointer of backend p points to
Deref(p, ptr) ==
    IF ptr = ArgPtr THEN arg[p].image
    ELSE IF ptr \in DOMAIN heap[p] THEN heap[p][ptr]
    ELSE LongImage(<<>>)

\* palloc: the lowest chunk not in use
palloc(p) == CHOOSE c \in 1..(Cardinality(DOMAIN heap[p]) + 1) : c \notin DOMAIN heap[p]

\* the function manager hands the arguments to the function
Call(p, f, a, s) ==
    /\ pc[p] \in {"idle", "done"}
    /\ pc' = [pc EXCEPT ![p] = "called"]
    /\ fn' = [fn EXCEPT ![p] = f]
    /\ arg' = [arg EXCEPT ![p] = a]
    /\ seed' = [seed EXCEPT ![p] = s]
    /\ key' = [key EXCEPT ![KeySlot(p)] = NullPtr]
    /\ result' = [result EXCEPT ![p] = NoDatum]
    /\ argLive' = [argLive EXCEPT ![p] = TRUE]
    /\ UNCHANGED heap

\* a function without side effects runs and returns
Invoke(p) ==
    /\ pc[p] = "called"
    /\ fn[p] \notin VarlenaFns
    /\ result' = [result EXCEPT ![p] = Eval(fn[p], arg[p], seed[p])]
    /\ pc' = [pc EXCEPT ![p] = "done"]
    /\ UNCHANGED <<fn, arg, seed, key, heap, argLive>>

\* key = PG_GETARG_TEXT_PP(0) / PG_GETARG_VARLENA_PP(0)
GetArg(p) ==
    /\ pc[p] = "called"
    /\ fn[p] \in VarlenaFns
    /\ IF NeedsCopy(arg[p])
       THEN LET c == palloc(p)
            IN  /\ heap' = [heap EXCEPT ![p] =
                               [i \in DOMAIN heap[p] \cup {c} |->
                                   IF i = c THEN heap_tuple_untoast_attr(arg[p])
                                   ELSE heap[p][i]]]
                /\ key' = [key EXCEPT ![KeySlot(p)] = c]
       ELSE /\ key' = [key EXCEPT ![KeySlot(p)] = ArgPtr]
            /\ UNCHANGED heap
    /\ pc' = [pc EXCEPT ![p] = "fetched"]
    /\ UNCHANGED <<fn, arg, seed, result, argLive>>

\* the copy cannot be allocated: the error leaves the function at once
GetArgFails(p) ==
    /\ pc[p] = "called"
    /\ fn[p] \in VarlenaFns
    /\ NeedsCopy(arg[p])
    /\ pc' = [pc EXCEPT ![p] = "error"]
    /\ UNCHANGED <<fn, arg, seed, key, result, heap, argLive>>

\* the span as VARDATA / VARSIZE give it, which assume a 4-byte header
HashSpan_4B(p) ==
    /\ pc[p] = "fetched"
    /\ LET v == Deref(p, key[KeySlot(p)])
       IN  result' = [result EXCEPT ![p] =
               IF fn[p] \in ExtendedFns
               THEN hash_any_extended(VARDATA_4B(v), VARSIZE_4B(v) - VARHDRSZ, seed[p])
               ELSE hash_any(VARDATA_4B(v), VARSIZE_4B(v) - VARHDRSZ)]
    /\ pc' = [pc EXCEPT ![p] = "hashed"]
    /\ UNCHANGED <<fn, arg, seed, key, heap, argLive>>

\* result = hash_any(VARDATA_ANY(key), VARSIZE_ANY_EXHDR(key))
HashSpan(p) ==
    /\ pc[p] = "fetched"
    /\ LET v == Deref(p, key[KeySlot(p)])
       IN  result' = [result EXCEPT ![p] =
               IF fn[p] \in ExtendedFns
               THEN hash_any_extended(VARDATA_ANY(v), VARSIZE_ANY_EXHDR(v), seed[p])
               ELSE hash_any(VARDATA_ANY(v), VARSIZE_ANY_EXHDR(v))]
    /\ pc' = [pc EXCEPT ![p] = "hashed"]
    /\ UNCHANGED <<fn, arg, seed, key, heap, argLive>>

\* the primitive raises an error: control leaves the function at the call
HashFails(p) ==
    /\ pc[p] = "fetched"
    /\ pc' = [pc EXCEPT ![p] = "error"]
    /\ UNCHANGED <<fn, arg, seed, key, result, heap, argLive>>

\* pfree(ptr)
pfree(p, ptr) ==
    IF ptr = ArgPtr
    THEN /\ argLive' = [argLive EXCEPT ![p] = FALSE]
         /\ UNCHANGED heap
    ELSE /\ heap' = [heap EXCEPT ![p] = [i \in DOMAIN heap[p] \ {ptr} |-> heap[p][i]]]
         /\ UNCHANGED argLive

\* freeing the key without the test for a copy
FreeAlways(p, ptr) == pfree(p, ptr)

\* PG_FREE_IF_COPY(key, 0)
PG_FREE_IF_COPY(p, ptr) ==
    IF ptr # ArgPtr THEN pfree(p, ptr) ELSE UNCHANGED <<heap, argLive>>

FreeIfCopy(p) ==
    /\ pc[p] = "hashed"
    /\ PG_FREE_IF_COPY(p, key[KeySlot(p)])
    /\ pc' = [pc EXCEPT ![p] = "freed"]
    /\ UNCHANGED <<fn, arg, seed, key, result>>

\* return result
Return(p) ==
    /\ pc[p] = "freed"
    /\ pc' = [pc EXCEPT ![p] = "done"]
    /\ UNCHANGED <<fn, arg, seed, key, result, heap, argLive>>

(***************************************************************************)
(* Specifications.  One backend calling the functions of one family on     *)
(* all inputs of the family; and all backends calling all functions        *)
(* concurrently on a few inputs each.                                      *)
(***************************************************************************)
NextInt ==
    \/ \E f \in IntFns : \E a \in Args(f), s \in Seeds(f) : Call(1, f, a, s)
    \/ Invoke(1)

SpecInt == Init /\ [][NextInt]_vars

NextFloat ==
    \/ \E f \in FloatFns : \E a \in Args(f), s \in Seeds(f) : Call(1, f, a, s)
    \/ Invoke(1)

SpecFloat == Init /\ [][NextFloat]_vars

NextVector ==
    \/ \E f \in VectorFns : \E a \in Args(f), s \in Seeds(f) : Call(1, f, a, s)
    \/ Invoke(1)

SpecVector == Init /\ [][NextVector]_vars

NextVarlena ==
    \/ \E f \in VarlenaFns : \E a \in Args(f), s \in Seeds(f) : Call(1, f, a, s)
    \/ GetArg(1)
    \/ GetArgFails(1)
    \/ HashSpan(1)
    \/ HashFails(1)
    \/ FreeIfCopy(1)
    \/ Return(1)

SpecVarlena == Init /\ [][NextVarlena]_vars

\* the concurrent specification: one function of each family, both seeded
\* and plain, and all four allocating functions
ConcFns == {"hashint8extended", "hashfloat4", "hashoidvector", "hashnameextended"}
               \cup VarlenaFns

ConcSeeds(f) == IF f \in ExtendedFns THEN {ToBytes(MaxSeed, 8)} ELSE {NoSeed}

ConcArgs(f) ==
    CASE f = "hashint8extended" -> {ToBytes(0 - 1, 8)}
      [] f = "hashfloat4" -> {[sign |-> 0, exp |-> 127, frac |-> Pow2(22)]}
      [] f = "hashoidvector" -> {OidVector(<<1, MaxOid>>)}
      [] f = "hashnameextended" -> {NameData(<<97>>, <<120, 120>>)}
      [] f \in VarlenaFns ->
            {Inline(ShortImage(<<97>>), <<97>>),
             OutOfLine(CompressedImage(<<255>>), <<255>>)}

Step(p) ==
    \/ \E f \in ConcFns : \E a \in ConcArgs(f), s \in ConcSeeds(f) : Call(p, f, a, s)
    \/ Invoke(p)
    \/ GetArg(p)
    \/ GetArgFails(p)
    \/ HashSpan(p)
    \/ HashFails(p)
    \/ FreeIfCopy(p)
    \/ Return(p)

Next == \E p \in Backends : Step(p)

Spec == Init /\ [][Next]_vars

(***************************************************************************)
(* Properties.                                                             *)
(***************************************************************************)
Finished(p, f) == pc[p] = "done" /\ fn[p] = f

\* a 64-bit value numerically equal to a 32-bit one (16-bit one)
InInt32Range(v) == v = ToBytes(Value(Truncate(v, 4)), 8)

InInt16Range(v) == v = ToBytes(Value(Truncate(v, 2)), 8)

\* C1: hashint2(a) and hashint4(a) equal hashint8 of the 64-bit integer of the
\* same numeric value, so the three widths give one code for equal numbers;
\* the fold of a 64-bit value in 32-bit range is its low 32 bits.
C1_PlainWidthIndependent ==
    \A p \in Backends :
        /\ Finished(p, "hashint2") =>
              /\ result[p] = hashint8(ToBytes(Value(arg[p]), 8))
              /\ result[p] = hashint4(ToBytes(Value(arg[p]), 4))
        /\ Finished(p, "hashint4") =>
              result[p] = hashint8(ToBytes(Value(arg[p]), 8))
        /\ (Finished(p, "hashint8") /\ InInt32Range(arg[p])) =>
              /\ result[p] = hashint4(Truncate(arg[p], 4))
              /\ result[p].key = Truncate(arg[p], 4)
        /\ (Finished(p, "hashint8") /\ InInt16Range(arg[p])) =>
              result[p] = hashint2(Truncate(arg[p], 2))

C1_Witness ==
    /\ Finished(1, "hashint8")
    /\ IsNegative(arg[1])
    /\ InInt16Range(arg[1])
    /\ result[1] = hashint2(Truncate(arg[1], 2))

\* C2: for every seed, the seeded integer hashers of the three widths give
\* one code for numerically equal inputs, and hand the caller's seed
\* unchanged to the seeded 32-bit primitive.
C2_SeededWidthIndependent ==
    \A p \in Backends :
        /\ Finished(p, "hashint2extended") =>
              /\ result[p] = hashint8extended(ToBytes(Value(arg[p]), 8), seed[p])
              /\ result[p] = hashint4extended(ToBytes(Value(arg[p]), 4), seed[p])
        /\ Finished(p, "hashint4extended") =>
              result[p] = hashint8extended(ToBytes(Value(arg[p]), 8), seed[p])
        /\ (Finished(p, "hashint8extended") /\ InInt32Range(arg[p])) =>
              result[p] = hashint4extended(Truncate(arg[p], 4), seed[p])
        /\ (Finished(p, "hashint8extended") /\ InInt16Range(arg[p])) =>
              result[p] = hashint2extended(Truncate(arg[p], 2), seed[p])
        /\ (pc[p] = "done" /\ fn[p] \in {"hashint2extended", "hashint4extended",
                                          "hashint8extended"}) =>
              /\ result[p].prim = "hash_uint32_extended"
              /\ result[p].seed = seed[p]

C2_Witness ==
    /\ Finished(1, "hashint2extended")
    /\ IsNegative(arg[1])
    /\ seed[1] = ToBytes(1, 8)
    /\ result[1] = hashint8extended(SignExtend(arg[1], 8), seed[1])

PlusZero4 == [sign |-> 0, exp |-> 0, frac |-> 0]

MinusZero4 == [sign |-> 1, exp |-> 0, frac |-> 0]

PlusZero8 == [sign |-> 0, exp |-> 0, fhi |-> 0, flo |-> 0]

MinusZero8 == [sign |-> 1, exp |-> 0, fhi |-> 0, flo |-> 0]

\* C3: +0.0 and -0.0 hash to the literal 0 in hashfloat4 and hashfloat8, and
\* to exactly the seed in the seeded variants, without a call of the
\* byte-hash primitive.
C3_ZeroCollapses ==
    \A p \in Backends :
        /\ (Finished(p, "hashfloat4") /\ arg[p] \in {PlusZero4, MinusZero4}) =>
              result[p] = UInt32GetDatum(ToBytes(0, 4))
        /\ (Finished(p, "hashfloat8") /\ arg[p] \in {PlusZero8, MinusZero8}) =>
              result[p] = UInt32GetDatum(ToBytes(0, 4))
        /\ (Finished(p, "hashfloat4extended") /\ arg[p] \in {PlusZero4, MinusZero4}) =>
              result[p] = UInt64GetDatum(seed[p])
        /\ (Finished(p, "hashfloat8extended") /\ arg[p] \in {PlusZero8, MinusZero8}) =>
              result[p] = UInt64GetDatum(seed[p])

C3_Witness ==
    /\ Finished(1, "hashfloat8")
    /\ arg[1] = MinusZero8
    /\ result[1].prim = "UInt32GetDatum"

\* C4: two float4 (float8) values that the type's equality operator holds
\* equal get the same plain code and, for every seed, the same seeded code.
C4_EqualFloatsHashEqual ==
    \A p \in Backends :
        /\ Finished(p, "hashfloat4") =>
              \A b \in Float4Inputs : float4_eq(arg[p], b) => hashfloat4(b) = result[p]
        /\ Finished(p, "hashfloat8") =>
              \A b \in Float8Inputs : float8_eq(arg[p], b) => hashfloat8(b) = result[p]
        /\ Finished(p, "hashfloat4extended") =>
              \A b \in Float4Inputs :
                  float4_eq(arg[p], b) => hashfloat4extended(b, seed[p]) = result[p]
        /\ Finished(p, "hashfloat8extended") =>
              \A b \in Float8Inputs :
                  float8_eq(arg[p], b) => hashfloat8extended(b, seed[p]) = result[p]

\* the number a finite non-zero float stands for, as <<odd significand, exponent>>
RECURSIVE Normalized(_, _)
Normalized(sig, e) == IF sig % 2 = 0 THEN Normalized(sig \div 2, e + 1) ELSE <<sig, e>>

Number4(f) ==
    IF f.exp = 0 THEN Normalized(f.frac, 0 - 149)
    ELSE Normalized(Pow2(23) + f.frac, f.exp - 150)

\* of a float8 whose low fraction half is clear
Number8(d) ==
    IF d.exp = 0 THEN Normalized(d.fhi, 0 - 1048)
    ELSE Normalized(Pow2(26) + d.fhi, d.exp - 1049)

\* d is the float8 that stands for exactly what the float4 f stands for
IsWideningOf(d, f) ==
    /\ d.sign = f.sign
    /\ CASE Float4IsNaN(f) -> d = float4_to_float8(f)
         [] f.exp = 255 /\ f.frac = 0 -> d.exp = 2047 /\ d.fhi = 0 /\ d.flo = 0
         [] OTHER -> /\ d.exp < 2047
                     /\ d.flo = 0
                     /\ d.fhi # 0 \/ d.exp # 0
                     /\ Number8(d) = Number4(f)

\* C5: a non-zero float4 hashes as the float8 of the same value, plain and
\* seeded; hashfloat4 hashes the 8 bytes of the widened value and
\* hashfloat8 the 8 bytes of its argument.
C5_PrecisionIndependent ==
    \A p \in Backends :
        /\ (Finished(p, "hashfloat4") /\ ~Float4IsZero(arg[p])) =>
              /\ \E d \in Float8Inputs : IsWideningOf(d, arg[p])
              /\ \A d \in Float8Inputs :
                    IsWideningOf(d, arg[p]) => result[p] = hashfloat8(d)
              /\ Len(result[p].key) = 8
        /\ (Finished(p, "hashfloat4extended") /\ ~Float4IsZero(arg[p])) =>
              /\ \A d \in Float8Inputs :
                    IsWideningOf(d, arg[p]) => result[p] = hashfloat8extended(d, seed[p])
              /\ Len(result[p].key) = 8
        /\ (pc[p] = "done" /\ fn[p] \in {"hashfloat8", "hashfloat8extended"}
              /\ ~Float8IsZero(arg[p])) =>
              result[p].key = Float8Bytes(arg[p])

\* a subnormal float4, whose widening is a normal float8
C5_Witness ==
    /\ Finished(1, "hashfloat4")
    /\ arg[1].exp = 0
    /\ arg[1].frac = 1
    /\ result[1] = hashfloat8([sign |-> arg[1].sign, exp |-> 874, fhi |-> 0, flo |-> 0])

\* C6: the text and varlena hashers hash exactly the logical content
\* bytes, whatever the storage form (short or long header, compressed,
\* out of line): inputs of equal content get equal codes, plain and for
\* every seed, and hashtext agrees with hashvarlena.
C6_ContentOnly ==
    \A p \in Backends :
        /\ (pc[p] = "done" /\ fn[p] \in {"hashtext", "hashvarlena"}) =>
              result[p] = hash_any(arg[p].logical, Len(arg[p].logical))
        /\ (pc[p] = "done" /\ fn[p] \in {"hashtextextended", "hashvarlenaextended"}) =>
              result[p] = hash_any_extended(arg[p].logical, Len(arg[p].logical), seed[p])

C6_Witness ==
    /\ Finished(1, "hashtext")
    /\ VARATT_IS_EXTERNAL(arg[1].image)
    /\ VARATT_IS_COMPRESSED(arg[1].toast)
    /\ Len(arg[1].logical) = MaxLen
    /\ result[1].key = arg[1].logical

MadeCopy(p) == key[KeySlot(p)] \notin {ArgPtr, NullPtr}

C8_ElementsInOrder ==
    \A p \in Backends :
        (pc[p] = "done" /\ fn[p] \in {"hashoidvector", "hashoidvectorextended"}) =>
            /\ Len(result[p].key) = Len(arg[p].logical) * sizeof_Oid
            /\ \A i \in 1..Len(arg[p].logical) :
                  SubSeq(result[p].key, sizeof_Oid * (i - 1) + 1, sizeof_Oid * i)
                      = ToBytes(arg[p].logical[i], sizeof_Oid)
            /\ \A w \in OidVectorInputs :
                  LET other == IF fn[p] = "hashoidvector" THEN hashoidvector(w)
                               ELSE hashoidvectorextended(w, seed[p])
                  IN  /\ w.logical = arg[p].logical => other = result[p]
                      /\ w.logical # arg[p].logical => other.key # result[p].key

C8_Witness ==
    /\ Finished(1, "hashoidvector")
    /\ arg[1].logical = <<1, 2, 3>>
    /\ result[1].key # hashoidvector(OidVector(<<3, 2, 1>>)).key
    /\ Len(result[1].key) = 12

\* what a call returns when it runs alone
RunAlone(f, a, s) ==
    IF f \in VarlenaFns
    THEN LET v == IF NeedsCopy(a) THEN heap_tuple_untoast_attr(a) ELSE a.image
         IN  IF f \in ExtendedFns
             THEN hash_any_extended(VARDATA_ANY(v), VARSIZE_ANY_EXHDR(v), s)
             ELSE hash_any(VARDATA_ANY(v), VARSIZE_ANY_EXHDR(v))
    ELSE Eval(f, a, s)

ReturnsAsAlone ==
    /\ \A p \in Backends : pc[p] = "done" => result[p] = RunAlone(fn[p], arg[p], seed[p])
    /\ \A p, q \in Backends :
          (pc[p] = "done" /\ pc[q] = "done" /\ fn[p] = fn[q] /\ seed[p] = seed[q]
              /\ arg[p] = arg[q]) => result[p] = result[q]

\* a backend that takes no step keeps all of its state, and no step of a
\* call changes the call's input
NoInterference ==
    \A p \in Backends :
        /\ pc'[p] = pc[p] =>
              /\ fn'[p] = fn[p] /\ arg'[p] = arg[p] /\ seed'[p] = seed[p]
              /\ key'[p] = key[p] /\ result'[p] = result[p]
              /\ heap'[p] = heap[p] /\ argLive'[p] = argLive[p]
        /\ pc'[p] # "called" =>
              fn'[p] = fn[p] /\ arg'[p] = arg[p] /\ seed'[p] = seed[p]

\* C9: in every interleaving of calls of concurrent backends, a call
\* returns what the same call returns when run alone, equal calls return
\* equal codes, and no call touches the state of another call or its own
\* input.
C9_PureAndReentrant == []ReturnsAsAlone /\ [][NoInterference]_vars

\* two calls that both made a copy, one returned while the other is under way
C9_Witness ==
    /\ pc[1] = "done"
    /\ pc[2] = "fetched"
    /\ fn[1] \in VarlenaFns
    /\ fn[2] \in VarlenaFns
    /\ MadeCopy(1)
    /\ ~MadeCopy(2)
    /\ arg[1] # arg[2]
    /\ result[1] = RunAlone(fn[1], arg[1], seed[1])

\* C10: hashname and hashnameextended hash the bytes before the first NUL
\* of the name buffer and nothing behind it: buffers holding the same
\* string get the same code, whatever follows the terminator.
C10_NameContentOnly ==
    \A p \in Backends :
        (pc[p] = "done" /\ fn[p] \in {"hashname", "hashnameextended"}) =>
            /\ result[p].key = arg[p].logical
            /\ \A i \in 1..Len(result[p].key) : result[p].key[i] # 0
            /\ Len(result[p].key) < NAMEDATALEN
            /\ \A b \in NameInputs :
                  b.logical = arg[p].logical =>
                      result[p] = IF fn[p] = "hashname" THEN hashname(b)
                                  ELSE hashnameextended(b, seed[p])

C10_Witness ==
    /\ Finished(1, "hashnameextended")
    /\ Len(arg[1].logical) = MaxNameLen
    /\ arg[1].data[NAMEDATALEN] # 0
    /\ result[1].key = arg[1].logical

====
